---- MODULE Spec2Model ----
(***************************************************************************)
(* Seat accounting of the ticket booking service (src/src/main.py,         *)
(* src/src/db.py): events, holds, bookings, the request handlers           *)
(* create_event, create_hold, create_booking, get_event_status and the     *)
(* background task cleanup_expired_holds.                                  *)
(*                                                                         *)
(* The store is PostgreSQL at its default isolation level (the engine of   *)
(* db.py sets none): every statement of a transaction reads the rows       *)
(* committed when the statement starts, and nothing is locked.  A handler  *)
(* is modelled as one step per group of statements between which a commit *)
(* of another transaction changes what the handler does; its own insert    *)
(* becomes visible at its commit.  Time is counted in whole minutes.       *)
(***************************************************************************)
EXTENDS Integers, Sequences, FiniteSets, TLC

VARIABLES now, events, holds, bookings, pc, req, loc, last, sweep

vars == <<now, events, holds, bookings, pc, req, loc, last, sweep>>

(* ------------------------------ bounds --------------------------------- *)
MaxTime     == 2      \* the clock stops here
MaxEvents   == 1      \* events ever created
MaxSeats    == 2      \* largest total_seats of an event
MaxHolds    == 2      \* Hold rows ever written
MaxBookings == 2      \* Booking rows ever written

Procs == {1, 2}       \* concurrent request handlers

(* --------------------------- program constants ------------------------- *)
DEFAULT_HOLD_TTL_MINUTES == 2
MAX_HOLD_TTL_MINUTES     == 60
MIN_HOLD_TTL_MINUTES     == 1

\* Optional[int]: <<>> is None, <<n>> is the integer n.
TTLInputs == {<<>>, <<0>>}

Max(a, b) == IF a >= b THEN a ELSE b
Min(a, b) == IF a <= b THEN a ELSE b

\* the upper clamp only
validate_hold_ttl_NoMinimum(ttl_minutes) ==
    IF ttl_minutes = <<>>
    THEN DEFAULT_HOLD_TTL_MINUTES
    ELSE Min(ttl_minutes[1], MAX_HOLD_TTL_MINUTES)

validate_hold_ttl(ttl_minutes) ==
    IF ttl_minutes = <<>>
    THEN DEFAULT_HOLD_TTL_MINUTES
    ELSE Max(MIN_HOLD_TTL_MINUTES, Min(ttl_minutes[1], MAX_HOLD_TTL_MINUTES))

(* ------------------------------- rows ---------------------------------- *)
\* Event.id, Hold.id and Booking.id are the positions in the three tables.
Event(total_seats) == [total_seats |-> total_seats]

\* a row born flagged
Hold_FlaggedFromCreation(event_id, quantity, payment_token, expires_at) ==
    [event_id |-> event_id, quantity |-> quantity,
     payment_token |-> payment_token, expires_at |-> expires_at,
     is_expired |-> TRUE]

Hold(event_id, quantity, payment_token, expires_at) ==
    [event_id |-> event_id, quantity |-> quantity,
     payment_token |-> payment_token, expires_at |-> expires_at,
     is_expired |-> FALSE]

Booking(hold_id, payment_token) ==
    [hold_id |-> hold_id, payment_token |-> payment_token]

\* secrets.token_urlsafe(32): a fresh value, different from every token issued
\* before; 0 is a token that is never issued.
token_urlsafe(H) == Len(H) + 1

(* ------------------------------ queries -------------------------------- *)
RECURSIVE SumQuantity(_, _)
SumQuantity(H, ids) ==
    IF ids = {} THEN 0
    ELSE LET i == CHOOSE j \in ids : TRUE
         IN  H[i].quantity + SumQuantity(H, ids \ {i})

\* select(Booking.hold_id)
BookedHoldIds(B) == {B[i].hold_id : i \in DOMAIN B}

\* `not Hold.is_expired` inside and_(...): Python's `not` is applied to the
\* mapped attribute object itself, which is truthy, so the operand handed to
\* and_() is the constant False, whatever the row's flag is.
NotHoldIsExpired(h) == FALSE

\* the active holds taken from the is_expired flag alone, as if the sweeper
\* were what expires a hold
ActiveHoldIds_FlagOnly(H, B, t) ==
    {i \in DOMAIN H : ~H[i].is_expired /\ i \notin BookedHoldIds(B)}

\* and_() with a False operand is the constant false(): the other operands
\* are evaluated but no row can satisfy the conjunction.
ActiveHoldIds(H, B, t) ==
    {i \in DOMAIN H : /\ H[i].expires_at > t
                      /\ NotHoldIsExpired(H[i])
                      /\ i \notin BookedHoldIds(B)}

\* coalesce(sum(Hold.quantity), 0) over the active holds of the event
HeldSeats(H, B, event_id, t) ==
    SumQuantity(H, {i \in ActiveHoldIds(H, B, t) : H[i].event_id = event_id})

\* booked seats that stop counting when the hold's expires_at has passed
BookedSeats_UntilExpiry(H, B, event_id) ==
    SumQuantity(H, {i \in DOMAIN H : /\ H[i].event_id = event_id
                                     /\ i \in BookedHoldIds(B)
                                     /\ H[i].expires_at > now})

\* the booked sum without its Hold.event_id == event_id
BookedSeats_AnyEvent(H, B, event_id) ==
    SumQuantity(H, {i \in DOMAIN H : i \in BookedHoldIds(B)})

\* coalesce(sum(Hold.quantity), 0) over the holds of the event with a booking
BookedSeats(H, B, event_id) ==
    SumQuantity(H, {i \in DOMAIN H : /\ H[i].event_id = event_id
                                     /\ i \in BookedHoldIds(B)})

\* Booking rows with this hold_id and this payment_token
ExistingBooking(B, hold_id, payment_token) ==
    {i \in DOMAIN B : /\ B[i].hold_id = hold_id
                      /\ B[i].payment_token = payment_token}

\* Booking rows with this hold_id
ExistingBookingForHold(B, hold_id) ==
    {i \in DOMAIN B : B[i].hold_id = hold_id}

(* ------------------------- decisions of handlers ----------------------- *)
\* a partial grant that keeps the requested quantity
Fulfillment_PartialKeepsRequested(available, qty, allow_partial) ==
    IF available < qty /\ ~(allow_partial /\ available > 0)
    THEN [ok |-> FALSE, quantity_to_hold |-> qty, partial_fulfillment |-> FALSE]
    ELSE [ok |-> TRUE, quantity_to_hold |-> qty,
          partial_fulfillment |-> available < qty]

\* create_hold: quantity to hold, or rejection
Fulfillment(available, qty, allow_partial) ==
    IF available < qty
    THEN IF allow_partial /\ available > 0
         THEN [ok |-> TRUE, quantity_to_hold |-> available,
               partial_fulfillment |-> TRUE]
         ELSE [ok |-> FALSE, quantity_to_hold |-> qty,
               partial_fulfillment |-> FALSE]
    ELSE [ok |-> TRUE, quantity_to_hold |-> qty, partial_fulfillment |-> FALSE]

\* no token comparison at all
TokenMismatch_Skipped(h, payment_token) == FALSE

\* the token compared only while the hold has no booking
TokenMismatch_UnbookedOnly(h, payment_token) ==
    /\ h.payment_token # payment_token
    /\ ~ \E j \in DOMAIN bookings : bookings[j].payment_token = h.payment_token

\* create_booking: hold.payment_token != booking_request.payment_token
TokenMismatch(h, payment_token) == h.payment_token # payment_token

\* a hold still confirmable at the minute it expires
HoldHasExpired_Strict(h, t) == h.is_expired \/ h.expires_at < t

\* create_booking: hold.is_expired or hold.expires_at <= now
HoldHasExpired(h, t) == h.is_expired \/ h.expires_at <= t

(* ----------------------------- responses ------------------------------- *)
NoReq == [op |-> "none"]
NoLoc == [stage |-> "none"]

HTTPException(status, detail) == [status |-> status, detail |-> detail]

\* what the step just taken sent to a caller: the response of the handler that
\* finished in it, with its request, or nothing
Response(request, response) == [req |-> request, res |-> response]
NoResponse == Response(NoReq, HTTPException(0, "none"))

\* a step in which no handler finishes and the cleanup task logs nothing
Quiet == last' = NoResponse /\ sweep' = "sleeping"

(* ------------------------------- Init ---------------------------------- *)
Init ==
    /\ now = 0
    /\ events = <<>>
    /\ holds = <<>>
    /\ bookings = <<>>
    /\ pc = [p \in Procs |-> "idle"]
    /\ req = [p \in Procs |-> NoReq]
    /\ loc = [p \in Procs |-> NoLoc]
    /\ last = NoResponse
    /\ sweep = "sleeping"

\* rows that the transactions in flight may still write: a call goes on to
\* its insert only while the table has room for the row
PendingHolds    == Cardinality({p \in Procs : pc[p] = "hold_insert"})
PendingBookings == Cardinality({p \in Procs : pc[p] \in {"book_check", "book_insert"}})

\* the handler of p returns or raises: its transaction ends
Finish(p, request, response) ==
    /\ pc' = [pc EXCEPT ![p] = "idle"]
    /\ req' = [req EXCEPT ![p] = NoReq]
    /\ loc' = [loc EXCEPT ![p] = NoLoc]
    /\ last' = Response(request, response)
    /\ sweep' = "sleeping"

(* ---------------------------- create_event ----------------------------- *)
\* POST /events: the row is written unless check_total_seats_positive
\* rejects it (IntegrityError, rollback, 400).
create_event(total_seats) ==
    /\ Len(events) < MaxEvents
    /\ events' = IF total_seats > 0 THEN Append(events, Event(total_seats))
                 ELSE events
    /\ Quiet
    /\ UNCHANGED <<now, holds, bookings, pc, req, loc>>

(* ----------------------------- create_hold ----------------------------- *)
\* begin; select the event; now; the sum over the active holds; the sum over
\* the booked holds; available; the quantity to hold.  The event row never
\* changes and the three reads are taken as one step.
HoldBegin(p, event_id, qty, allow_partial, hold_ttl_minutes) ==
    /\ pc[p] = "idle"
    /\ LET r == [op |-> "create_hold", event_id |-> event_id, qty |-> qty,
                 allow_partial |-> allow_partial,
                 hold_ttl_minutes |-> hold_ttl_minutes]
       IN  IF event_id \notin DOMAIN events
           THEN Finish(p, r, HTTPException(404, "Event not found"))
           ELSE LET active_holds == HeldSeats(holds, bookings, event_id, now)
                    booked_seats == BookedSeats(holds, bookings, event_id)
                    available == events[event_id].total_seats
                                    - (active_holds + booked_seats)
                    f == Fulfillment(available, qty, allow_partial)
                IN  IF f.ok
                    THEN /\ Len(holds) + PendingHolds < MaxHolds
                         /\ pc' = [pc EXCEPT ![p] = "hold_insert"]
                         /\ req' = [req EXCEPT ![p] = r]
                         /\ loc' = [loc EXCEPT ![p] =
                                [stage |-> "decided",
                                 now |-> now,
                                 hold_ttl |-> validate_hold_ttl(hold_ttl_minutes),
                                 available |-> available,
                                 quantity_to_hold |-> f.quantity_to_hold,
                                 partial_fulfillment |-> f.partial_fulfillment]]
                         /\ Quiet
                    ELSE Finish(p, r, [status |-> 400,
                                       detail |-> "Not enough seats available",
                                       requested |-> qty, available |-> available])
    /\ UNCHANGED <<now, events, holds, bookings>>

\* token, expires_at (from the now read at the start of the call), insert
\* (flush), commit; check_quantity_positive rejects
\* a quantity <= 0 at the flush (IntegrityError, rollback, 500).  The field
\* available of the response is the value the call computed (the available_qty
\* of its log lines), kept beside the fields of HoldResponse.
HoldInsert(p) ==
    /\ pc[p] = "hold_insert"
    /\ IF loc[p].quantity_to_hold > 0
       THEN /\ holds' = Append(holds,
                   Hold(req[p].event_id, loc[p].quantity_to_hold,
                        token_urlsafe(holds), loc[p].now + loc[p].hold_ttl))
            /\ Finish(p, req[p],
                      [status |-> 200, detail |-> "HoldResponse",
                       hold_id |-> Len(holds) + 1,
                       expires_at |-> loc[p].now + loc[p].hold_ttl,
                       payment_token |-> token_urlsafe(holds),
                       quantity_held |-> loc[p].quantity_to_hold,
                       quantity_requested |-> req[p].qty,
                       partial_fulfillment |-> loc[p].partial_fulfillment,
                       available |-> loc[p].available])
       ELSE /\ Finish(p, req[p], HTTPException(500, "IntegrityError"))
            /\ UNCHANGED holds
    /\ UNCHANGED <<now, events, bookings>>

(* ---------------------------- create_booking --------------------------- *)
\* begin; the idempotency query (scalar_one_or_none() raises
\* MultipleResultsFound, a 500, when more than one row matches); select the
\* hold; not found, wrong token, expired.  Hold rows are never deleted and
\* the two reads are taken as one step.
BookBegin(p, hold_id, payment_token) ==
    /\ pc[p] = "idle"
    /\ LET r == [op |-> "create_booking", hold_id |-> hold_id,
                 payment_token |-> payment_token]
           existing == ExistingBooking(bookings, hold_id, payment_token)
       IN  IF Cardinality(existing) > 1
           THEN Finish(p, r, HTTPException(500, "MultipleResultsFound: existing_booking"))
           ELSE IF existing # {}
           THEN Finish(p, r, [status |-> 200, detail |-> "BookingResponse",
                              event_type |-> "booking_create_idempotent",
                              booking_id |-> CHOOSE i \in existing : TRUE])
           ELSE IF hold_id \notin DOMAIN holds
           THEN Finish(p, r, HTTPException(404, "Hold not found"))
           ELSE IF TokenMismatch(holds[hold_id], payment_token)
           THEN Finish(p, r, HTTPException(400, "Invalid payment token"))
           ELSE IF HoldHasExpired(holds[hold_id], now)
           THEN Finish(p, r, HTTPException(400, "Hold has expired"))
           ELSE /\ Len(bookings) + PendingBookings < MaxBookings
                /\ pc' = [pc EXCEPT ![p] = "book_check"]
                /\ req' = [req EXCEPT ![p] = r]
                /\ Quiet
                /\ UNCHANGED loc
    /\ UNCHANGED <<now, events, holds, bookings>>

\* is the hold already booked
\* The row flushed before the already-booked check instead of after it: the
\* refusal then leaves a Booking behind.
BookCheck_InsertsBeforeCheck(p) ==
    /\ pc[p] = "book_check"
    /\ LET existing == ExistingBookingForHold(bookings, req[p].hold_id)
       IN  IF Cardinality(existing) > 1
           THEN /\ Finish(p, req[p],
                       HTTPException(500, "MultipleResultsFound: existing_booking_for_hold"))
                /\ bookings' = bookings
           ELSE IF existing # {}
           THEN /\ Finish(p, req[p], HTTPException(400, "Hold already booked"))
                /\ bookings' = Append(bookings,
                                Booking(req[p].hold_id, req[p].payment_token))
           ELSE /\ pc' = [pc EXCEPT ![p] = "book_insert"]
                /\ Quiet
                /\ UNCHANGED <<req, loc, bookings>>
    /\ UNCHANGED <<now, events, holds>>

BookCheck(p) ==
    /\ pc[p] = "book_check"
    /\ LET existing == ExistingBookingForHold(bookings, req[p].hold_id)
       IN  IF Cardinality(existing) > 1
           THEN Finish(p, req[p],
                       HTTPException(500, "MultipleResultsFound: existing_booking_for_hold"))
           ELSE IF existing # {}
           THEN Finish(p, req[p], HTTPException(400, "Hold already booked"))
           ELSE /\ pc' = [pc EXCEPT ![p] = "book_insert"]
                /\ Quiet
                /\ UNCHANGED <<req, loc>>
    /\ UNCHANGED <<now, events, holds, bookings>>

\* insert (flush), commit: no constraint of the bookings table can reject
\* the row (db.py declares only a NOT NULL check).
BookInsert(p) ==
    /\ pc[p] = "book_insert"
    /\ bookings' = Append(bookings, Booking(req[p].hold_id, req[p].payment_token))
    /\ Finish(p, req[p], [status |-> 200, detail |-> "BookingResponse",
                          event_type |-> "booking_create_success",
                          booking_id |-> Len(bookings) + 1])
    /\ UNCHANGED <<now, events, holds>>

(* --------------------------- get_event_status -------------------------- *)
EventStatus(H, B, event_id, t) ==
    LET held_seats == HeldSeats(H, B, event_id, t)
        booked_seats == BookedSeats(H, B, event_id)
    IN  [total |-> events[event_id].total_seats,
         available |-> events[event_id].total_seats - held_seats - booked_seats,
         held |-> held_seats,
         booked |-> booked_seats]

\* GET /events/{event_id}: reads only, no state of its own between steps
get_event_status(event_id) ==
    /\ last' = Response([op |-> "get_event_status", event_id |-> event_id],
                        IF event_id \notin DOMAIN events
                        THEN HTTPException(404, "Event not found")
                        ELSE [status |-> 200, detail |-> "EventStatusResponse",
                              body |-> EventStatus(holds, bookings, event_id, now)])
    /\ sweep' = "sleeping"
    /\ UNCHANGED <<now, events, holds, bookings, pc, req, loc>>

(* ------------------------------ get_metrics ---------------------------- *)
EXPIRING_SOON_MINUTES == 5

\* The eight counts, each by the where clause of its own query.
Metrics(H, B, t) ==
    [total_events |-> Len(events),
     total_holds |-> Len(H),
     active_holds |-> Cardinality(ActiveHoldIds(H, B, t)),
     expired_holds |->
        Cardinality({i \in DOMAIN H : H[i].expires_at <= t \/ H[i].is_expired}),
     total_bookings |-> Len(B),
     total_seats_booked |-> SumQuantity(H, DOMAIN H \cap BookedHoldIds(B)),
     total_seats_held |-> SumQuantity(H, ActiveHoldIds(H, B, t)),
     holds_expiring_soon |->
        Cardinality({i \in ActiveHoldIds(H, B, t) :
                        H[i].expires_at <= t + EXPIRING_SOON_MINUTES})]

\* GET /metrics: reads only.  The eight statements are taken as one read of
\* the tables.
get_metrics ==
    /\ last' = Response([op |-> "get_metrics"],
                        [status |-> 200, detail |-> "MetricsResponse",
                         body |-> Metrics(holds, bookings, now)])
    /\ sweep' = "sleeping"
    /\ UNCHANGED <<now, events, holds, bookings, pc, req, loc>>

(* ------------------------- cleanup_expired_holds ----------------------- *)
\* count(Hold.id) where and_(Hold.expires_at <= now, not Hold.is_expired)
ExpiredCount(H, t) ==
    Cardinality({i \in DOMAIN H : H[i].expires_at <= t /\ NotHoldIsExpired(H[i])})

\* The cycle commits a flag update in one statement followed by one commit, or
\* nothing at all.  A cycle that raised after flagging only some of the holds
\* it counted would be the partial update the except branch has to rule out.
cleanup_expired_holds_PartialCommit(db_error) ==
    /\ sweep' = IF db_error \/ ExpiredCount(holds, now) > 0 THEN "cleanup_error"
                ELSE "nothing_expired"
    /\ holds' = IF db_error
                THEN [i \in DOMAIN holds |->
                        IF holds[i].expires_at <= now /\ i = 1
                        THEN [holds[i] EXCEPT !.is_expired = TRUE]
                        ELSE holds[i]]
                ELSE holds
    /\ last' = NoResponse
    /\ UNCHANGED <<now, events, bookings, pc, req, loc>>

\* One cycle of the loop; sweep is what the cycle logs.  Any statement of
\* the try block may raise (get_db(), db.execute() against an unreachable
\* database): db_error is that outcome.  With expired_count > 0 the UPDATE is
\* handed to db.execute() as a plain string, which the session refuses
\* (ArgumentError: textual SQL must be declared with text()).  Either way the
\* except branch logs the error, nothing is committed, and the loop goes on
\* to sleep(30) and the next cycle: the action has no guard.
cleanup_expired_holds(db_error) ==
    /\ sweep' = IF db_error \/ ExpiredCount(holds, now) > 0 THEN "cleanup_error"
                ELSE "nothing_expired"
    /\ last' = NoResponse
    /\ UNCHANGED <<now, events, holds, bookings, pc, req, loc>>

(* -------------------------------- time --------------------------------- *)
Tick ==
    /\ now < MaxTime
    /\ now' = now + 1
    /\ Quiet
    /\ UNCHANGED <<events, holds, bookings, pc, req, loc>>

(* -------------------------------- Next --------------------------------- *)
\* Everything but the background task.
NextNoSweeper ==
    \/ \E total_seats \in 0..MaxSeats : create_event(total_seats)
    \/ \E p \in Procs, event_id \in 1..MaxEvents, qty \in 0..MaxSeats,
          allow_partial \in BOOLEAN, ttl \in TTLInputs :
            HoldBegin(p, event_id, qty, allow_partial, ttl)
    \/ \E p \in Procs : HoldInsert(p)
    \/ \E p \in Procs, hold_id \in 1..MaxHolds, payment_token \in 0..MaxHolds :
            BookBegin(p, hold_id, payment_token)
    \/ \E p \in Procs : BookCheck(p)
    \/ \E p \in Procs : BookInsert(p)
    \/ \E event_id \in 1..MaxEvents : get_event_status(event_id)
    \/ get_metrics
    \/ Tick

Next ==
    \/ NextNoSweeper
    \/ \E db_error \in BOOLEAN : cleanup_expired_holds(db_error)

Spec == Init /\ [][Next]_vars

\* The executions in which the sweeper never runs.
SpecNoSweeper == Init /\ [][NextNoSweeper]_vars

\* One cycle of the cleanup task, with either outcome.
SweepCycle == \E db_error \in BOOLEAN : cleanup_expired_holds(db_error)

\* The cleanup task is a task of the event loop that does nothing but
\* `while True: <cycle>; await asyncio.sleep(30)`: whatever the handlers do,
\* its next cycle comes.
SpecSweeper == Spec /\ WF_vars(SweepCycle)

\* create_hold over the values of hold_ttl_minutes that matter to
\* validate_hold_ttl: absent, below, at and above both ends of the window.
\* One caller asks for one seat of an event that exists.
TTLCases == {<<>>} \cup {<<n>> : n \in {-1, 0, 1, 2, 59, 60, 61, 1000}}

InitTTL ==
    /\ now = 0
    /\ events \in {<<Event(total_seats)>> : total_seats \in 1..MaxSeats}
    /\ holds = <<>>
    /\ bookings = <<>>
    /\ pc = [p \in Procs |-> "idle"]
    /\ req = [p \in Procs |-> NoReq]
    /\ loc = [p \in Procs |-> NoLoc]
    /\ last = NoResponse
    /\ sweep = "sleeping"

NextTTL ==
    \/ \E ttl \in TTLCases : HoldBegin(1, 1, 1, FALSE, ttl)
    \/ HoldInsert(1)
    \/ Tick

SpecTTL == InitTTL /\ [][NextTTL]_vars

\* The executions in which one transaction commits before the next begins:
\* a single caller, and the clock, the cleanup task and the readers move
\* only between its calls.
NextSerial ==
    \/ \E total_seats \in 0..MaxSeats : create_event(total_seats)
    \/ \E event_id \in 1..MaxEvents, qty \in 0..MaxSeats,
          allow_partial \in BOOLEAN, ttl \in TTLInputs :
            HoldBegin(1, event_id, qty, allow_partial, ttl)
    \/ HoldInsert(1)
    \/ \E hold_id \in 1..MaxHolds, payment_token \in 0..MaxHolds :
            BookBegin(1, hold_id, payment_token)
    \/ BookCheck(1)
    \/ BookInsert(1)
    \/ /\ pc[1] = "idle"
       /\ \/ \E event_id \in 1..MaxEvents : get_event_status(event_id)
          \/ SweepCycle
          \/ Tick

SpecSerial == Init /\ [][NextSerial]_vars

\* The cleanup task with cycles that keep coming and do not fail for ever.
SpecSweeperSucceeds == Spec /\ WF_vars(cleanup_expired_holds(FALSE))

\* The handlers over two events that exist from the start, each with its own
\* number of seats.
InitTwoEvents ==
    /\ now = 0
    /\ events \in {<<Event(a), Event(b)>> : a, b \in 1..MaxSeats}
    /\ holds = <<>>
    /\ bookings = <<>>
    /\ pc = [p \in Procs |-> "idle"]
    /\ req = [p \in Procs |-> NoReq]
    /\ loc = [p \in Procs |-> NoLoc]
    /\ last = NoResponse
    /\ sweep = "sleeping"

NextTwoEvents ==
    \/ \E p \in Procs, event_id \in {1, 2}, qty \in 1..MaxSeats,
          allow_partial \in BOOLEAN :
            HoldBegin(p, event_id, qty, allow_partial, <<>>)
    \/ \E p \in Procs : HoldInsert(p)
    \/ \E p \in Procs, hold_id \in 1..MaxHolds, payment_token \in 0..MaxHolds :
            BookBegin(p, hold_id, payment_token)
    \/ \E p \in Procs : BookCheck(p)
    \/ \E p \in Procs : BookInsert(p)
    \/ \E event_id \in {1, 2} : get_event_status(event_id)
    \/ Tick

SpecTwoEvents == InitTwoEvents /\ [][NextTwoEvents]_vars

(***************************************************************************)
(* What the specification means by held and booked, read off the rows.     *)
(***************************************************************************)
HasBooking(i) == \E j \in DOMAIN bookings : bookings[j].hold_id = i

IsActive(i, t) ==
    /\ holds[i].expires_at > t
    /\ ~holds[i].is_expired
    /\ ~HasBooking(i)

HoldsOf(e) == {i \in DOMAIN holds : holds[i].event_id = e}

held(e, t) == SumQuantity(holds, {i \in HoldsOf(e) : IsActive(i, t)})
booked(e) == SumQuantity(holds, {i \in HoldsOf(e) : HasBooking(i)})

BookingsOf(i) == {j \in DOMAIN bookings : bookings[j].hold_id = i}

(* ------------------------------- C1 ------------------------------------ *)
\* C1: for every event, in every committed state, the seats of its active
\* holds plus the seats of its booked holds do not exceed total_seats.
C1_NoOverselling ==
    \A e \in DOMAIN events : held(e, now) + booked(e) <= events[e].total_seats

(* ------------------------------- C2 ------------------------------------ *)
\* C2: in every committed state at most one Booking row references a hold.
C2_NoDoubleBooking ==
    \A i \in DOMAIN holds : Cardinality(BookingsOf(i)) <= 1

(* ------------------------------- C3 ------------------------------------ *)
\* C3: on an event with one seat, of the create_hold calls asking for one
\* seat without partial fulfillment at most one is granted while the hold of
\* the other is still active: a call that returns a Hold never finds the
\* single seat held.
C3_SingleSeatRace ==
    (/\ last.req.op = "create_hold"
     /\ last.res.detail = "HoldResponse"
     /\ last.req.qty = 1
     /\ ~last.req.allow_partial
     /\ events[last.req.event_id].total_seats = 1)
    => ~ \E i \in HoldsOf(last.req.event_id) :
            /\ i # last.res.hold_id
            /\ IsActive(i, now)

(* ------------------------------- C4 ------------------------------------ *)
\* A step in which a create_booking call for (i, t) begins: it either ends in
\* the same step with a response, or goes on to the already-booked check.
BeginsBooking(i, t) ==
    LET r == [op |-> "create_booking", hold_id |-> i, payment_token |-> t]
    IN  \/ pc' = pc /\ last'.req = r
        \/ \E p \in Procs : pc[p] = "idle" /\ pc'[p] = "book_check" /\ req'[p] = r

\* C4: a create_booking call that begins when a Booking for its
\* (hold_id, payment_token) exists returns the id of that Booking, and exactly
\* one Booking row exists for the pair before and after it, whatever the time
\* and the is_expired flag of the hold.
C4_IdempotentConfirmation ==
    [][\A i \in 1..MaxHolds, t \in 0..MaxHolds :
          (BeginsBooking(i, t) /\ ExistingBooking(bookings, i, t) # {})
          => /\ last'.req.op = "create_booking"
             /\ last'.res.status = 200
             /\ ExistingBooking(bookings, i, t) = {last'.res.booking_id}
             /\ bookings' = bookings]_vars

(* ------------------------------- C5 ------------------------------------ *)
\* C5: every Booking carries the payment_token of the Hold it references, and
\* no create_booking call that presents another token than the one stored on
\* its hold returns a booking.
C5_TokenBinding ==
    /\ \A j \in DOMAIN bookings :
          /\ bookings[j].hold_id \in DOMAIN holds
          /\ bookings[j].payment_token = holds[bookings[j].hold_id].payment_token
    /\ (/\ last.req.op = "create_booking"
        /\ last.req.hold_id \in DOMAIN holds
        /\ last.req.payment_token # holds[last.req.hold_id].payment_token)
       => last.res.status # 200

\* a wrong token was presented against a hold that is booked and timed out,
\* and was refused
C5_Witness ==
    /\ last.req.op = "create_booking"
    /\ last.req.hold_id \in DOMAIN holds
    /\ last.req.payment_token # holds[last.req.hold_id].payment_token
    /\ HasBooking(last.req.hold_id)
    /\ holds[last.req.hold_id].expires_at <= now
    /\ last.res.status = 400

(* ------------------------------- C6 ------------------------------------ *)
\* a create_booking call for hold i with token t begins while i has a Booking
\* and none of the Bookings of i was made with t
FurtherConfirm(i, t) ==
    /\ BeginsBooking(i, t)
    /\ BookingsOf(i) # {}
    /\ \A j \in BookingsOf(i) : bookings[j].payment_token # t

\* C6 as stated: such a call fails with "Hold already booked" and leaves the
\* Booking rows unchanged.
C6_AlreadyBookedConflict ==
    [][\A i \in 1..MaxHolds, t \in 0..MaxHolds :
          FurtherConfirm(i, t)
          => /\ last'.req.op = "create_booking"
             /\ last'.res.detail = "Hold already booked"
             /\ bookings' = bookings]_vars

\* C6 amended: such a call fails in its first step with "Invalid payment
\* token" (the token check comes before the already-booked check, and every
\* Booking carries its hold's token) and leaves the Booking rows unchanged.
C6_BookedHoldRejectsOtherToken ==
    [][\A i \in 1..MaxHolds, t \in 0..MaxHolds :
          FurtherConfirm(i, t)
          => /\ last'.req.op = "create_booking"
             /\ last'.res.status = 400
             /\ last'.res.detail = "Invalid payment token"
             /\ bookings' = bookings]_vars

\* a booked hold was presented with another token and the call was refused
C6_Witness ==
    /\ last.req.op = "create_booking"
    /\ BookingsOf(last.req.hold_id) # {}
    /\ \A j \in BookingsOf(last.req.hold_id) :
          bookings[j].payment_token # last.req.payment_token
    /\ last.res.status = 400

(* ------------------------------- C7 ------------------------------------ *)
\* C7: a create_booking call that presents the right token for a hold that has
\* no Booking and is flagged expired or has expires_at <= now (equality
\* included) fails with "Hold has expired" and writes no Booking.
C7_ExpiredHoldNotConfirmed ==
    [][\A i \in DOMAIN holds :
          (/\ BeginsBooking(i, holds[i].payment_token)
           /\ BookingsOf(i) = {}
           /\ (holds[i].is_expired \/ holds[i].expires_at <= now))
          => /\ last'.req.op = "create_booking"
             /\ last'.res.status = 400
             /\ last'.res.detail = "Hold has expired"
             /\ bookings' = bookings]_vars

\* the right token was presented at the very minute the hold expires
C7_Witness ==
    /\ last.req.op = "create_booking"
    /\ last.req.hold_id \in DOMAIN holds
    /\ last.req.payment_token = holds[last.req.hold_id].payment_token
    /\ BookingsOf(last.req.hold_id) = {}
    /\ holds[last.req.hold_id].expires_at = now
    /\ last.res.detail = "Hold has expired"

(* ------------------------------- C8 ------------------------------------ *)
\* C8: with available the availability the call computed and requested > 0:
\* a call with available >= requested is granted requested seats, not
\* partial; otherwise a call with allow_partial and available > 0 is granted
\* exactly the available seats, marked partial, with quantity_requested the
\* request's; every other call fails with "Not enough seats available", and
\* a failing call writes no Hold.
C8_FulfillmentPolicy ==
    /\ [](last.req.op = "create_hold" /\ last.req.qty > 0
            /\ last.req.event_id \in DOMAIN events
          => \/ /\ last.res.detail = "HoldResponse"
                /\ last.res.quantity_requested = last.req.qty
                /\ holds[last.res.hold_id].quantity = last.res.quantity_held
                /\ IF last.res.available >= last.req.qty
                   THEN /\ last.res.quantity_held = last.req.qty
                        /\ ~last.res.partial_fulfillment
                   ELSE /\ last.req.allow_partial
                        /\ last.res.available > 0
                        /\ last.res.quantity_held = last.res.available
                        /\ last.res.partial_fulfillment
             \/ /\ last.res.detail = "Not enough seats available"
                /\ last.res.status = 400
                /\ last.res.available < last.req.qty
                /\ ~(last.req.allow_partial /\ last.res.available > 0))
    /\ [][last'.res.detail = "Not enough seats available" => holds' = holds]_vars

\* a partial grant: fewer seats available than requested, all of them held
C8_Witness ==
    /\ last.req.op = "create_hold"
    /\ last.res.detail = "HoldResponse"
    /\ last.res.partial_fulfillment
    /\ last.res.available = 1
    /\ last.req.qty = 2
    /\ last.res.quantity_held = 1

(* ------------------------------- C9 ------------------------------------ *)
\* the unbooked holds whose expires_at has passed
TimedOut(t) == {i \in DOMAIN holds : holds[i].expires_at <= t /\ ~HasBooking(i)}

\* the holds table with the seats of the timed-out holds taken away
WithoutTimedOut(t) ==
    [i \in DOMAIN holds |->
        IF i \in TimedOut(t) THEN [holds[i] EXCEPT !.quantity = 0] ELSE holds[i]]

\* the holds table after a sweep that flags every timed-out hold
Swept(t) ==
    [i \in DOMAIN holds |->
        IF holds[i].expires_at <= t THEN [holds[i] EXCEPT !.is_expired = TRUE]
        ELSE holds[i]]

WithoutHold(i) == [holds EXCEPT ![i].quantity = 0]

\* C10: a hold that has a Booking keeps it, and its quantity is counted in
\* booked and not in held of its event, at every time and whatever its flag.
C10_BookedSeatsPermanent ==
    /\ [](\A i \in DOMAIN holds :
            HasBooking(i) =>
              LET e == holds[i].event_id
                  with == EventStatus(holds, bookings, e, now)
                  without == EventStatus(WithoutHold(i), bookings, e, now)
                  flagged == EventStatus([holds EXCEPT ![i].is_expired = TRUE],
                                         bookings, e, now)
              IN  /\ with.booked = without.booked + holds[i].quantity
                  /\ with.held = without.held
                  /\ flagged = with)
    /\ [][\A i \in DOMAIN holds : HasBooking(i) => HasBooking(i)']_vars

\* a booked hold whose expires_at has passed is reported as booked
C10_Witness ==
    /\ last.req.op = "get_event_status"
    /\ last.res.status = 200
    /\ \E i \in HoldsOf(last.req.event_id) :
          /\ HasBooking(i)
          /\ holds[i].expires_at < now
          /\ last.res.body.booked = holds[i].quantity

(* ------------------------------- C11 ----------------------------------- *)
\* the refusals of create_hold and create_booking
Refusals ==
    {"Event not found", "Not enough seats available", "Hold not found",
     "Invalid payment token", "Hold has expired", "Hold already booked"}

\* C11: a step in which create_hold or create_booking answers with one of
\* its refusals (event not found, not enough seats, hold not found, invalid
\* token, hold expired, hold already booked) leaves the events, holds and
\* bookings tables as they were.
C11_FailureLeavesStateUnchanged ==
    [][(/\ last'.req.op \in {"create_hold", "create_booking"}
        /\ last'.res.detail \in Refusals)
       => /\ events' = events
          /\ holds' = holds
          /\ bookings' = bookings]_vars

\* a confirmation that lost the race for its hold was refused at the last
\* check before the insert
C11_Witness ==
    /\ last.req.op = "create_booking"
    /\ last.res.detail = "Hold already booked"
    /\ Len(bookings) = 1

(* ------------------------------- C12 ----------------------------------- *)
\* C12: a create_hold call that asks for zero or fewer seats of an existing
\* event is answered with an invalid-input refusal and never gets as far as
\* the availability computation or the insert.
C12_QuantityValidated ==
    /\ \A p \in Procs :
          (pc[p] = "hold_insert" /\ req[p].op = "create_hold") => req[p].qty > 0
    /\ (/\ last.req.op = "create_hold"
        /\ last.req.qty <= 0
        /\ last.req.event_id \in DOMAIN events)
       => /\ last.res.status \in {400, 422}
          /\ last.res.detail = "InvalidInput"

(* ------------------------------- C13 ----------------------------------- *)
\* the policy window, written out
ClampedTTL(ttl) ==
    IF ttl = <<>> THEN 2
    ELSE IF ttl[1] < 1 THEN 1
    ELSE IF ttl[1] > 60 THEN 60
    ELSE ttl[1]

C14_AvailabilityResult ==
    (last.req.op = "get_event_status" /\ last.res.status = 200)
    => LET e == last.req.event_id
           b == last.res.body
       IN  /\ b.held = held(e, now)
           /\ b.booked = booked(e)
           /\ b.available = events[e].total_seats - b.held - b.booked
           /\ b.held >= 0 /\ b.booked >= 0 /\ b.available >= 0

(* ------------------------------- C15 ----------------------------------- *)
\* C15: a cycle of the cleanup task leaves what get_event_status returns for
\* every event as it was, and held + booked <= total_seats holds for every
\* event in every state of an execution in which no cycle runs.
C15_SweeperNotNeeded ==
    /\ [][sweep' # "sleeping"
          => \A e \in DOMAIN events :
                /\ e \in DOMAIN events'
                /\ EventStatus(holds', bookings', e, now')
                     = EventStatus(holds, bookings, e, now)]_vars
    /\ [](\A e \in DOMAIN events :
            held(e, now) + booked(e) <= events[e].total_seats)

(* ------------------------------- C16 ----------------------------------- *)
\* C16: the tables never hold two Booking rows with the same
\* (hold_id, payment_token) nor two Hold rows with the same payment_token:
\* the second row of either kind is refused by the schema.
C16_StorageIdempotencyGuard ==
    /\ \A j, k \in DOMAIN bookings :
          (/\ bookings[j].hold_id = bookings[k].hold_id
           /\ bookings[j].payment_token = bookings[k].payment_token) => j = k
    /\ \A i, k \in DOMAIN holds :
          holds[i].payment_token = holds[k].payment_token => i = k

(* ------------------------------- C17 ----------------------------------- *)
\* the sum over the events E of one count of get_event_status
RECURSIVE SumOverEvents(_, _)
SumOverEvents(E, count) ==
    IF E = {} THEN 0
    ELSE LET e == CHOOSE x \in E : TRUE
         IN  EventStatus(holds, bookings, e, now)[count]
                + SumOverEvents(E \ {e}, count)

\* C17: what get_metrics returns agrees with the rows and with
\* get_event_status at the same instant: total_seats_held and
\* total_seats_booked are the sums of held and booked over the events,
\* active_holds counts the unexpired, unflagged, unbooked holds,
\* expired_holds the holds flagged or with expires_at <= now, and
\* holds_expiring_soon the active holds with expires_at <= now + 5.
C17_MetricsAgree ==
    last.req.op = "get_metrics"
    => LET b == last.res.body
           active == {i \in DOMAIN holds : IsActive(i, now)}
       IN  /\ b.total_seats_held = SumOverEvents(DOMAIN events, "held")
           /\ b.total_seats_booked = SumOverEvents(DOMAIN events, "booked")
           /\ b.active_holds = Cardinality(active)
           /\ b.expired_holds
                = Cardinality({i \in DOMAIN holds :
                                 holds[i].is_expired \/ holds[i].expires_at <= now})
           /\ b.holds_expiring_soon
                = Cardinality({i \in active : holds[i].expires_at <= now + 5})

(* ------------------------------- C18 ----------------------------------- *)
\* C18: a create_booking call for hold i with token t that begins while a
\* Booking for (i, t) exists returns that Booking; otherwise it fails with
\* "Hold not found" if i is no hold, else with "Invalid payment token" if t
\* is not the token of i, else with "Hold has expired" if i is flagged or
\* timed out, and else goes on to the already-booked check, which fails with
\* "Hold already booked" if i has a Booking by then.
C18_CheckOrder ==
    /\ [][\A i \in 1..MaxHolds, t \in 0..MaxHolds :
            BeginsBooking(i, t)
            => IF ExistingBooking(bookings, i, t) # {}
               THEN /\ last'.res.status = 200
                    /\ last'.res.booking_id \in ExistingBooking(bookings, i, t)
               ELSE IF i \notin DOMAIN holds
               THEN last'.res.detail = "Hold not found"
               ELSE IF holds[i].payment_token # t
               THEN last'.res.detail = "Invalid payment token"
               ELSE IF holds[i].is_expired \/ holds[i].expires_at <= now
               THEN last'.res.detail = "Hold has expired"
               ELSE \E p \in Procs : pc[p] = "idle" /\ pc'[p] = "book_check"]_vars
    /\ [][\A p \in Procs :
            (pc[p] = "book_check" /\ pc'[p] = "idle")
            => /\ BookingsOf(req[p].hold_id) # {}
               /\ last'.res.detail = "Hold already booked"]_vars

\* the same with the replay left out: the order of the four refusals alone
C18_RefusalOrder ==
    /\ [][\A i \in 1..MaxHolds, t \in 0..MaxHolds :
            (BeginsBooking(i, t) /\ ExistingBooking(bookings, i, t) = {})
            => IF i \notin DOMAIN holds
               THEN last'.res.detail = "Hold not found"
               ELSE IF holds[i].payment_token # t
               THEN last'.res.detail = "Invalid payment token"
               ELSE IF holds[i].is_expired \/ holds[i].expires_at <= now
               THEN last'.res.detail = "Hold has expired"
               ELSE \E p \in Procs : pc[p] = "idle" /\ pc'[p] = "book_check"]_vars
    /\ [][\A p \in Procs :
            (pc[p] = "book_check" /\ pc'[p] = "idle"
                /\ Cardinality(BookingsOf(req[p].hold_id)) <= 1)
            => /\ BookingsOf(req[p].hold_id) # {}
               /\ last'.res.detail = "Hold already booked"]_vars

(* ------------------------------- C19 ----------------------------------- *)
\* a step of the cleanup task
SweepStep == sweep' # "sleeping"

\* C19: a flagged Hold has expires_at <= now; every Hold row stays in the
\* table, and a step changes a row in no other way than the cleanup task
\* setting is_expired from false to true on a timed-out hold.
C19_ExpiredFlagSoundMonotonic ==
    /\ [](\A i \in DOMAIN holds : holds[i].is_expired => holds[i].expires_at <= now)
    /\ [][\A i \in DOMAIN holds :
            /\ i \in DOMAIN holds'
            /\ \/ holds'[i] = holds[i]
               \/ /\ SweepStep
                  /\ ~holds[i].is_expired
                  /\ holds[i].expires_at <= now
                  /\ holds'[i] = [holds[i] EXCEPT !.is_expired = TRUE]]_vars

\* a cycle of the cleanup task ran over a timed-out hold while another hold
\* was booked: both rows are as they were written
C19_Witness ==
    /\ sweep = "nothing_expired"
    /\ Len(holds) = 2
    /\ holds[1].expires_at <= now
    /\ ~holds[1].is_expired
    /\ HasBooking(2)

(* ------------------------------- C20 ----------------------------------- *)
\* C20: a cycle of the cleanup task that raises logs cleanup_error and
\* leaves every row as it was; after it the task is still there to run a
\* cycle, and cycles keep coming however many of them have failed.
C20_SweeperFaultTolerance ==
    /\ [][\A db_error \in BOOLEAN :
            (cleanup_expired_holds(db_error)
                /\ (db_error \/ ExpiredCount(holds, now) > 0))
            => /\ sweep' = "cleanup_error"
               /\ holds' = holds
               /\ events' = events
               /\ bookings' = bookings]_vars
    /\ [](sweep = "cleanup_error" => ENABLED <<SweepCycle>>_vars)
    /\ []<><<SweepCycle>>_vars

\* a cycle failed while a timed-out hold was waiting to be flagged
C20_Witness ==
    /\ sweep = "cleanup_error"
    /\ \E i \in DOMAIN holds : holds[i].expires_at <= now /\ ~HasBooking(i)

(* ------------------------------- C21 ----------------------------------- *)
\* the tables with everything that belongs to another event than e taken
\* out: the seats of the other events' holds, and the Bookings of those holds
OwnHolds(e) ==
    [i \in DOMAIN holds |->
        IF holds[i].event_id = e THEN holds[i]
        ELSE [holds[i] EXCEPT !.quantity = 0]]

OwnBookings(e) ==
    SelectSeq(bookings, LAMBDA b : holds[b.hold_id].event_id = e)

\* what create_booking for hold i with token t answers in its first step,
\* told from the rows of the event of i alone ("none": it goes on)
OwnAnswer(i, t) ==
    LET existing == ExistingBooking(OwnBookings(holds[i].event_id), i, t)
    IN  IF Cardinality(existing) > 1 THEN "MultipleResultsFound: existing_booking"
        ELSE IF existing # {} THEN "BookingResponse"
        ELSE IF holds[i].payment_token # t THEN "Invalid payment token"
        ELSE IF holds[i].is_expired \/ holds[i].expires_at <= now
        THEN "Hold has expired"
        ELSE "none"

\* the seats create_hold finds available for e, from the rows of e alone
OwnAvailable(e) ==
    events[e].total_seats
        - HeldSeats(OwnHolds(e), OwnBookings(e), e, now)
        - BookedSeats(OwnHolds(e), OwnBookings(e), e)

\* C21: a step that writes a Hold or a Booking of one event leaves held,
\* booked and available of every other event as they were; and what
\* create_hold decides for an event, and what create_booking answers for a
\* hold, is what it would be with the seats and Bookings of every other
\* event taken out of the tables.
C21_CrossEventIndependence ==
    /\ [][\A e \in DOMAIN events :
            (\/ /\ holds' # holds
                /\ holds'[Len(holds')].event_id # e
             \/ /\ bookings' # bookings
                /\ holds[bookings'[Len(bookings')].hold_id].event_id # e)
            => /\ held(e, now)' = held(e, now)
               /\ booked(e)' = booked(e)
               /\ EventStatus(holds', bookings', e, now)
                    = EventStatus(holds, bookings, e, now)]_vars
    /\ [][\A p \in Procs :
            (pc[p] = "idle" /\ pc'[p] = "hold_insert")
            => LET r == req'[p]
                   f == Fulfillment(OwnAvailable(r.event_id), r.qty, r.allow_partial)
               IN  /\ f.ok
                   /\ loc'[p].available = OwnAvailable(r.event_id)
                   /\ loc'[p].quantity_to_hold = f.quantity_to_hold]_vars
    /\ [][(last'.req.op = "create_hold"
            /\ last'.res.detail = "Not enough seats available")
          => LET r == last'.req
             IN  /\ last'.res.available = OwnAvailable(r.event_id)
                 /\ ~Fulfillment(OwnAvailable(r.event_id), r.qty, r.allow_partial).ok]_vars
    /\ [][\A i \in DOMAIN holds, t \in 0..MaxHolds :
            BeginsBooking(i, t) => last'.res.detail = OwnAnswer(i, t)]_vars
    /\ [][\A p \in Procs :
            (pc[p] = "book_check" /\ pc'[p] = "idle")
            => LET i == req[p].hold_id
                   existing == ExistingBookingForHold(OwnBookings(holds[i].event_id), i)
               IN  /\ existing # {}
                   /\ last'.res.detail =
                        IF Cardinality(existing) > 1
                        THEN "MultipleResultsFound: existing_booking_for_hold"
                        ELSE "Hold already booked"]_vars

\* all the seats of event 1 were granted while a hold of event 2 was booked
C21_Witness ==
    /\ last.req.op = "create_hold"
    /\ last.req.event_id = 1
    /\ last.res.status = 200
    /\ last.res.quantity_held = events[1].total_seats
    /\ \E i \in DOMAIN holds : holds[i].event_id = 2 /\ HasBooking(i)

(* ------------------------------- C22 ----------------------------------- *)
\* C22: when the transactions run one at a time, held + booked <=
\* total_seats for every event after every one of them, and the seats a
\* create_hold call grants are not more than total_seats less the seats of
\* the other unexpired, unbooked holds and the booked seats of its event.
C22_SerializedNoOverselling ==
    /\ (\A p \in Procs : pc[p] = "idle")
       => \A e \in DOMAIN events :
             held(e, now) + booked(e) <= events[e].total_seats
    /\ (last.req.op = "create_hold" /\ last.res.status = 200)
       => LET e == last.req.event_id
              others == {i \in HoldsOf(e) :
                            i # last.res.hold_id /\ IsActive(i, now)}
          IN  last.res.quantity_held
                <= events[e].total_seats - SumQuantity(holds, others) - booked(e)

(* ------------------------------- C23 ----------------------------------- *)
\* C23: the step in which create_booking writes its Booking for a hold of
\* quantity q changes what get_event_status returns for the hold's event, at
\* the instant of the step, by held - q and booked + q, with available and
\* total as they were; the Hold rows and the earlier Bookings stay as they
\* were.
C23_ConfirmationConservesCapacity ==
    [][\A p \in Procs :
          (pc[p] = "book_insert" /\ pc'[p] = "idle" /\ last'.res.status = 200)
          => LET i == req[p].hold_id
                 q == holds[i].quantity
                 before == EventStatus(holds, bookings, holds[i].event_id, now)
                 after == EventStatus(holds', bookings', holds[i].event_id, now)
             IN  /\ after.held = before.held - q
                 /\ after.booked = before.booked + q
                 /\ after.available = before.available
                 /\ after.total = before.total
                 /\ holds' = holds
                 /\ SubSeq(bookings', 1, Len(bookings)) = bookings]_vars

(* ------------------------------- C24 ----------------------------------- *)
\* C24: every Hold whose expires_at has passed is flagged in the end, booked
\* or not, and a cycle of the cleanup task that does not raise and finds a
\* timed-out unflagged hold leaves every timed-out hold flagged.
C24_SweeperLiveness ==
    /\ \A i \in 1..MaxHolds :
          (i \in DOMAIN holds /\ holds[i].expires_at <= now)
            ~> (i \in DOMAIN holds /\ holds[i].is_expired)
    /\ [][(/\ sweep' = "nothing_expired"
            /\ \E i \in DOMAIN holds :
                  holds[i].expires_at <= now /\ ~holds[i].is_expired)
          => \A i \in DOMAIN holds :
                holds[i].expires_at <= now => holds'[i].is_expired]_vars

====
